---- MODULE Spec2Model ----
(***************************************************************************)
(* A model of src/src/drawing.rs: DrawContext, its 2D primitives, the UI   *)
(* overlay pass and the projection matrix.                                 *)
(*                                                                         *)
(* f32 values are modelled as exact extended rationals <<n, d>>:           *)
(*   d > 0, gcd(|n|, d) = 1   the finite value n/d                         *)
(*   <<1, 0>>, <<-1, 0>>      +infinity, -infinity                         *)
(*   <<0, 0>>                 NaN                                          *)
(* so that a division by zero gives what IEEE-754 gives.  Rounding to 24   *)
(* bits and the sign of zero are not modelled.                             *)
(***************************************************************************)
EXTENDS Integers, Sequences, FiniteSets, TLC

\* ------------------------------------------------------------------ bounds

\* Largest screen position given to a primitive.
MaxCoord == 1
\* Largest width, height, radius or thickness given to a primitive.
MaxSize == 3
\* Largest source-rectangle coordinate or size given to draw_texture_rec.
MaxSrc == 2
\* Largest destination width or height given to draw_texture_rec.
MaxDest == 2
\* Primitive draw calls per frame.
MaxPrims == 2
\* UI draw commands queued per frame.
MaxCmds == 2
\* Frames rendered.
MaxFrames == 2
\* Largest width or height of the screen.
MaxScreen == 2
\* Largest right or bottom edge of fixed screen coordinates.
MaxExtent == 1

\* ------------------------------------------------------- f32 as rationals

Abs(n) == IF n < 0 THEN -n ELSE n

Sign(n) == IF n < 0 THEN -1 ELSE IF n > 0 THEN 1 ELSE 0

RECURSIVE Gcd(_, _)
Gcd(a, b) == IF b = 0 THEN a ELSE Gcd(b, a % b)

\* The value n/d in lowest terms; d = 0 gives an infinity or NaN.
Norm(n, d) ==
    IF d = 0 THEN <<Sign(n), 0>>
    ELSE LET g == Gcd(Abs(n), Abs(d)) IN <<(Sign(d) * n) \div g, Abs(d) \div g>>

\* An integer literal as f32.
I(n) == <<n, 1>>

NaN == <<0, 0>>

IsNaN(a) == a = NaN

FNeg(a) == <<-a[1], a[2]>>

FAdd(a, b) ==
    IF a[2] = 0 /\ b[2] = 0
    THEN (IF a = b THEN a ELSE NaN)
    ELSE Norm(a[1] * b[2] + b[1] * a[2], a[2] * b[2])

FSub(a, b) == FAdd(a, FNeg(b))

FMul(a, b) == Norm(a[1] * b[1], a[2] * b[2])

FDiv(a, b) == Norm(a[1] * b[2], a[2] * b[1])

\* n1/d1 < n2/d2 for d1, d2 > 0, by continued fractions (no large products).
RECURSIVE RLess(_, _, _, _)
RLess(n1, d1, n2, d2) ==
    LET q1 == n1 \div d1
        q2 == n2 \div d2
        r1 == n1 % d1
        r2 == n2 % d2
    IN  IF q1 # q2 THEN q1 < q2
        ELSE IF r2 = 0 THEN FALSE
        ELSE IF r1 = 0 THEN TRUE
        ELSE RLess(d2, r2, d1, r1)

\* a < b as f32 compares: false when either side is NaN.
FLt(a, b) ==
    IF IsNaN(a) \/ IsNaN(b) THEN FALSE
    ELSE IF a[2] = 0 THEN a[1] < 0 /\ b # a
    ELSE IF b[2] = 0 THEN b[1] > 0
    ELSE RLess(a[1], a[2], b[1], b[2])

\* Largest k in lo..hi with k * k <= m (lo * lo <= m < (hi + 1) * (hi + 1)).
RECURSIVE ISqrtIn(_, _, _)
ISqrtIn(m, lo, hi) ==
    IF lo >= hi THEN lo
    ELSE LET mid == (lo + hi + 1) \div 2
         IN  IF mid * mid <= m THEN ISqrtIn(m, mid, hi) ELSE ISqrtIn(m, lo, mid - 1)

\* f32::sqrt, to 1/1024: exact on the squares of such values.
FSqrt(a) ==
    IF IsNaN(a) \/ a[1] < 0 THEN NaN
    ELSE IF a[2] = 0 THEN a
    ELSE Norm(ISqrtIn(a[1] * a[2] * 1024 * 1024, 0, 32768), a[2] * 1024)

\* std::f32::EPSILON, 2^-23.
EPSILON == <<1, 8388608>>

\* `f as i32`: truncation toward zero, NaN to 0, saturating at the ends.
AsI32(a) ==
    IF IsNaN(a) THEN 0
    ELSE IF a[2] = 0 THEN (IF a[1] > 0 THEN 2147483647 ELSE (-2147483647) - 1)
    ELSE IF a[1] >= 0 THEN a[1] \div a[2] ELSE -((-a[1]) \div a[2])

\* ------------------------------------------------------------ collaborators

\* quad_gl::Vertex::new(x, y, z, u, v, color).
Vertex(x, y, z, u, v, color) ==
    [x |-> x, y |-> y, z |-> z, u |-> u, v |-> v, color |-> color]

Colors == {"WHITE", "RED"}

\* The texture built from ui.font_atlas.texture by DrawContext::new.
FontTexture == [id |-> "font", width |-> 8, height |-> 8]

\* A texture of 2 x 1 texels.
Atlas == [id |-> "atlas", width |-> 2, height |-> 1]

\* Texture2D::empty(): a texture without texels.
EmptyTexture == [id |-> "empty", width |-> 0, height |-> 0]

\* Textures the application draws with.
Textures == {Atlas, EmptyTexture}

\* Option<Texture2D>::None, as gl.texture takes it.
NoTexture == [id |-> "none", width |-> 0, height |-> 0]

\* Texture2D::width() and height(), as f32.
Width(texture) == I(texture.width)

Height(texture) == I(texture.height)

\* glam::Mat4::orthographic_rh_gl: the scale and translation of the matrix.
OrthographicRhGl(left, right, bottom, top, near, far) ==
    [ sx |-> FDiv(I(2), FSub(right, left)),
      sy |-> FDiv(I(2), FSub(top, bottom)),
      sz |-> FDiv(I(-2), FSub(far, near)),
      tx |-> FNeg(FDiv(FAdd(right, left), FSub(right, left))),
      ty |-> FNeg(FDiv(FAdd(top, bottom), FSub(top, bottom))),
      tz |-> FNeg(FDiv(FAdd(far, near), FSub(far, near))) ]

\* ------------------------------------------------------ vertex generation

QuadIndices == <<0, 1, 2, 0, 2, 3>>

\* draw_rectangle: the quad of (x, y, w, h).
RectangleGeometry(x, y, w, h, color) ==
    [ vertices |-> << Vertex(x, y, I(0), I(0), I(1), color),
                      Vertex(FAdd(x, w), y, I(0), I(1), I(0), color),
                      Vertex(FAdd(x, w), FAdd(y, h), I(0), I(1), I(1), color),
                      Vertex(x, FAdd(y, h), I(0), I(0), I(0), color) >>,
      indices |-> QuadIndices ]

\* draw_texture: the quad of the whole texture at (x, y).
TextureGeometry(texture, x, y, color) ==
    LET w == Width(texture)
        h == Height(texture)
    IN  [ vertices |-> << Vertex(x, y, I(0), I(0), I(0), color),
                          Vertex(FAdd(x, w), y, I(0), I(1), I(0), color),
                          Vertex(FAdd(x, w), FAdd(y, h), I(0), I(1), I(1), color),
                          Vertex(x, FAdd(y, h), I(0), I(0), I(1), color) >>,
          indices |-> QuadIndices ]

\* draw_texture_rec with both texel coordinates divided by the texture's height.
TextureRecGeometryByHeight(texture, x, y, w, h, sx, sy, sw, sh, color) ==
    LET th == Height(texture)
    IN  [ vertices |->
            << Vertex(x, y, I(0), FDiv(sx, th), FDiv(sy, th), color),
               Vertex(FAdd(x, w), y, I(0), FDiv(FAdd(sx, sw), th), FDiv(sy, th), color),
               Vertex(FAdd(x, w), FAdd(y, h), I(0),
                      FDiv(FAdd(sx, sw), th), FDiv(FAdd(sy, sh), th), color),
               Vertex(x, FAdd(y, h), I(0), FDiv(sx, th), FDiv(FAdd(sy, sh), th), color) >>,
          indices |-> QuadIndices ]

\* draw_texture_rec: the quad of (x, y, w, h) with the texels of (sx, sy, sw, sh).
TextureRecGeometry(texture, x, y, w, h, sx, sy, sw, sh, color) ==
    LET tw == Width(texture)
        th == Height(texture)
    IN  [ vertices |->
            << Vertex(x, y, I(0), FDiv(sx, tw), FDiv(sy, th), color),
               Vertex(FAdd(x, w), y, I(0), FDiv(FAdd(sx, sw), tw), FDiv(sy, th), color),
               Vertex(FAdd(x, w), FAdd(y, h), I(0),
                      FDiv(FAdd(sx, sw), tw), FDiv(FAdd(sy, sh), th), color),
               Vertex(x, FAdd(y, h), I(0), FDiv(sx, tw), FDiv(FAdd(sy, sh), th), color) >>,
          indices |-> QuadIndices ]

\* draw_line: tlen, the length of the normal over half the thickness.
LineTlen(x1, y1, x2, y2, thickness) ==
    LET dx == FSub(x2, x1)
        dy == FSub(y2, y1)
        nx == FNeg(dy)
        ny == dx
    IN  FDiv(FSqrt(FAdd(FMul(nx, nx), FMul(ny, ny))), FMul(thickness, <<1, 2>>))

\* draw_line: the early return.
LineSkipped(x1, y1, x2, y2, thickness) ==
    FLt(LineTlen(x1, y1, x2, y2, thickness), EPSILON)

LineIndices == <<0, 1, 2, 2, 1, 3>>

\* draw_line: the quad around the segment.
LineGeometry(x1, y1, x2, y2, thickness, color) ==
    LET dx == FSub(x2, x1)
        dy == FSub(y2, y1)
        nx == FNeg(dy)
        ny == dx
        tlen == LineTlen(x1, y1, x2, y2, thickness)
        tx == FDiv(nx, tlen)
        ty == FDiv(ny, tlen)
    IN  [ vertices |-> << Vertex(FAdd(x1, tx), FAdd(y1, ty), I(0), I(0), I(0), color),
                          Vertex(FSub(x1, tx), FSub(y1, ty), I(0), I(0), I(0), color),
                          Vertex(FAdd(x2, tx), FAdd(y2, ty), I(0), I(0), I(0), color),
                          Vertex(FSub(x2, tx), FSub(y2, ty), I(0), I(0), I(0), color) >>,
          indices |-> LineIndices ]

NUM_DIVISIONS == 20

\* cos(k / 20 * 2 pi) in thousandths, k = 0 .. 4; the rest by symmetry.
CosQuarter == <<1000, 951, 809, 588, 309>>

\* cos(k / 20 * 2 pi) for k = 0 .. 19, to three decimals.
CosTable ==
    [ k \in 0 .. NUM_DIVISIONS - 1 |->
        Norm(IF k < 5 THEN CosQuarter[k + 1]
             ELSE IF k = 5 \/ k = 15 THEN 0
             ELSE IF k < 10 THEN -CosQuarter[10 - k + 1]
             ELSE IF k < 15 THEN -CosQuarter[k - 10 + 1]
             ELSE CosQuarter[20 - k + 1], 1000) ]

\* (i as f32 / NUM_DIVISIONS as f32 * PI * 2.).cos()
Cos(i) == CosTable[i % NUM_DIVISIONS]

\* (i as f32 / NUM_DIVISIONS as f32 * PI * 2.).sin()
Sin(i) == CosTable[(i + 15) % NUM_DIVISIONS]

\* draw_circle: the iterations of `for i in 0..NUM_DIVISIONS + 1`.
CircleIterations == IF NUM_DIVISIONS + 1 > 0 THEN NUM_DIVISIONS + 1 ELSE 0

\* draw_circle: the vertex pushed by iteration i.
CircleVertex(i, x, y, r, color) ==
    LET rx == Cos(i)
        ry == Sin(i)
    IN  Vertex(FAdd(x, FMul(r, rx)), FAdd(y, FMul(r, ry)), I(0), rx, ry, color)

\* draw_circle: the vertices after the centre was pushed and k iterations have run.
CircleVertices(k, x, y, r, color) ==
    [ j \in 1 .. k + 1 |->
        IF j = 1 THEN Vertex(x, y, I(0), I(0), I(0), color)
        ELSE CircleVertex(j - 2, x, y, r, color) ]

\* draw_circle without `if i != NUM_DIVISIONS`: the last iteration adds a triangle too.
RECURSIVE CircleIndicesUnguarded(_)
CircleIndicesUnguarded(k) ==
    IF k = 0 THEN <<>>
    ELSE CircleIndicesUnguarded(k - 1) \o <<0, k, k + 1>>

\* draw_circle: the indices after k iterations.
RECURSIVE CircleIndices(_)
CircleIndices(k) ==
    IF k = 0 THEN <<>>
    ELSE LET i == k - 1
         IN  IF i # NUM_DIVISIONS
             THEN CircleIndices(k - 1) \o <<0, i + 1, i + 2>>
             ELSE CircleIndices(k - 1)

\* draw_circle: the centre, then the fan.
CircleGeometry(x, y, r, color) ==
    [ vertices |-> CircleVertices(CircleIterations, x, y, r, color),
      indices |-> CircleIndices(CircleIterations),
      iterations |-> CircleIterations ]

\* ------------------------------------------------------------------- state

VARIABLES
    screen,              \* ctx.screen_size(): <<width, height>>
    screen_coordinates,  \* DrawContext.screen_coordinates
    gl_projection,       \* the matrix last given to gl.set_projection_matrix
    gl_texture,          \* the texture last given to gl.texture
    gl_scissor,          \* the clip last given to gl.scissor: <<>> or <<x, y, w, h>>
    ui_commands,         \* the draw commands the widgets of this frame have queued in ui
    ui_draw_list,        \* DrawContext.ui_draw_list
    local_draw_list,     \* draw_ui's local ui_draw_list
    pc,                  \* the position inside perform_render_passes, or "idle"
    cursor,              \* draw_ui's position in the for loop, from 1
    trace,               \* the calls made on gl and ui since the last gl.draw
    frame,               \* the number of gl.draw calls so far
    nprims,              \* the primitive draw calls of this frame so far
    call,                \* the arguments of the last primitive draw call
    ret,                 \* the operation that returned last
    loop_count           \* the loop iterations of the last draw_circle

vars ==
    << screen, screen_coordinates, gl_projection, gl_texture, gl_scissor, ui_commands,
       ui_draw_list, local_draw_list, pc, cursor, trace, frame, nprims, call, ret,
       loop_count >>

projVars == <<screen, screen_coordinates, gl_projection>>

glVars == <<gl_texture, gl_scissor>>

uiVars == <<ui_commands, ui_draw_list, local_draw_list>>

passVars == <<pc, cursor, frame>>

Last(s) == s[Len(s)]

\* One call on gl or ui: `by` is the DrawContext operation making it, `n` the number
\* of that primitive call in its frame (0 inside the render pass).
Entry(name, by, n, arg) == [call |-> name, by |-> by, n |-> n, arg |-> arg]

\* The trace a new call is added to: a gl.draw ends the trace of its frame.
Cur == IF trace # <<>> /\ Last(trace).call = "gl.draw" THEN <<>> ELSE trace

\* QuadGl as the calls see it: the bound texture, the clip and the calls so far.
Gl == [texture |-> gl_texture, scissor |-> gl_scissor, trace |-> Cur]

\* gl.texture(t) made by `by`.
GlTexture(gl, by, n, t) ==
    [gl EXCEPT !.texture = t, !.trace = Append(@, Entry("gl.texture", by, n, t))]

\* gl.scissor(clip) made by `by`.
GlScissor(gl, by, n, clip) ==
    [gl EXCEPT !.scissor = clip, !.trace = Append(@, Entry("gl.scissor", by, n, clip))]

\* gl.geometry(vertices, indices) made by `by`: batched with the texture and clip bound.
GlGeometry(gl, by, n, g) ==
    [gl EXCEPT !.trace =
        Append(@, Entry("gl.geometry", by, n,
                        [ vertices |-> g.vertices, indices |-> g.indices,
                          texture |-> gl.texture, scissor |-> gl.scissor ]))]

\* ------------------------------------------------------------- projection

PixelPerfect == [kind |-> "PixelPerfect"]

Fixed(left, right, bottom, top) ==
    [kind |-> "Fixed", left |-> left, right |-> right, bottom |-> bottom, top |-> top]

\* Projection with the y axis of the pixel-perfect case pointing up.
ProjectionYUp(coordinates, size) ==
    IF coordinates.kind = "PixelPerfect"
    THEN OrthographicRhGl(I(0), I(size[1]), I(0), I(size[2]), I(-1), I(1))
    ELSE OrthographicRhGl(I(coordinates.left), I(coordinates.right),
                          I(coordinates.bottom), I(coordinates.top), I(-1), I(1))

\* update_projection_matrix: the match on screen_coordinates.
Projection(coordinates, size) ==
    IF coordinates.kind = "PixelPerfect"
    THEN OrthographicRhGl(I(0), I(size[1]), I(size[2]), I(0), I(-1), I(1))
    ELSE OrthographicRhGl(I(coordinates.left), I(coordinates.right),
                          I(coordinates.bottom), I(coordinates.top), I(-1), I(1))

\* DrawContext::new on a screen of the given size.
New(size) ==
    /\ screen = size
    /\ screen_coordinates = PixelPerfect
    /\ gl_projection = Projection(PixelPerfect, size)
    /\ gl_texture = NoTexture
    /\ gl_scissor = <<>>
    /\ ui_commands = <<>>
    /\ ui_draw_list = <<>>
    /\ local_draw_list = <<>>
    /\ pc = "idle"
    /\ cursor = 0
    /\ trace = <<>>
    /\ frame = 0
    /\ nprims = 0
    /\ ret = "new"
    /\ loop_count = 0

NoCall == [op |-> "none"]

UpdateProjectionMatrix ==
    /\ pc = "idle"
    /\ gl_projection' = Projection(screen_coordinates, screen)
    /\ ret' = "update_projection_matrix"
    /\ UNCHANGED << screen, screen_coordinates, glVars, uiVars, passVars, trace, nprims,
                    call, loop_count >>

\* -------------------------------------------------------------- primitives

\* draw_rectangle without its gl.texture(None).
RectangleCallsUnbound(gl, by, n, x, y, w, h, color) ==
    GlGeometry(gl, by, n, RectangleGeometry(x, y, w, h, color))

\* draw_rectangle, called by `by`.
RectangleCalls(gl, by, n, x, y, w, h, color) ==
    GlGeometry(GlTexture(gl, by, n, NoTexture), by, n, RectangleGeometry(x, y, w, h, color))

\* draw_texture.
TextureCalls(gl, by, n, texture, x, y, color) ==
    GlGeometry(GlTexture(gl, by, n, texture), by, n, TextureGeometry(texture, x, y, color))

\* draw_rectangle_lines with side strips of the full height.
RectangleLinesCallsFullSides(gl, by, n, x, y, w, h, color) ==
    LET top == RectangleCalls(gl, by, n, x, y, w, I(1), color)
        right == RectangleCalls(top, by, n, FSub(FAdd(x, w), I(1)), y, I(1), h, color)
        bottom == RectangleCalls(right, by, n, x, FSub(FAdd(y, h), I(1)), w, I(1), color)
    IN  RectangleCalls(bottom, by, n, x, y, I(1), h, color)

\* draw_rectangle_lines: the four calls of draw_rectangle.
RectangleLinesCalls(gl, by, n, x, y, w, h, color) ==
    LET top == RectangleCalls(gl, by, n, x, y, w, I(1), color)
        right == RectangleCalls(top, by, n, FSub(FAdd(x, w), I(1)), FAdd(y, I(1)),
                                I(1), FSub(h, I(2)), color)
        bottom == RectangleCalls(right, by, n, x, FSub(FAdd(y, h), I(1)), w, I(1), color)
    IN  RectangleCalls(bottom, by, n, x, FAdd(y, I(1)), I(1), FSub(h, I(2)), color)

\* draw_texture_rec.
TextureRecCalls(gl, by, n, texture, x, y, w, h, sx, sy, sw, sh, color) ==
    GlGeometry(GlTexture(gl, by, n, texture), by, n,
               TextureRecGeometry(texture, x, y, w, h, sx, sy, sw, sh, color))

\* draw_line.
LineCalls(gl, by, n, x1, y1, x2, y2, thickness, color) ==
    IF LineSkipped(x1, y1, x2, y2, thickness)
    THEN gl
    ELSE GlGeometry(GlTexture(gl, by, n, NoTexture), by, n,
                    LineGeometry(x1, y1, x2, y2, thickness, color))

\* draw_circle.
CircleCalls(gl, by, n, x, y, r, color) ==
    GlGeometry(GlTexture(gl, by, n, NoTexture), by, n, CircleGeometry(x, y, r, color))

\* A primitive draw call: what it leaves in gl and in the bookkeeping.
Primitive(c, after, iterations) ==
    /\ pc = "idle"
    /\ LET gl == after
       IN  /\ gl_texture' = gl.texture
           /\ gl_scissor' = gl.scissor
           /\ trace' = gl.trace
    /\ nprims' = nprims + 1
    /\ ret' = c.op
    /\ loop_count' = iterations
    /\ UNCHANGED <<projVars, uiVars, passVars>>

DrawRectangle(c) ==
    /\ c.op = "draw_rectangle"
    /\ Primitive(c, RectangleCalls(Gl, c.op, nprims + 1, I(c.x), I(c.y), I(c.w), I(c.h),
                                   c.color), 0)

DrawTexture(c) ==
    /\ c.op = "draw_texture"
    /\ Primitive(c, TextureCalls(Gl, c.op, nprims + 1, c.texture, I(c.x), I(c.y), c.color), 0)

DrawRectangleLines(c) ==
    /\ c.op = "draw_rectangle_lines"
    /\ Primitive(c, RectangleLinesCalls(Gl, c.op, nprims + 1, I(c.x), I(c.y), I(c.w),
                                        I(c.h), c.color), 0)

DrawTextureRec(c) ==
    /\ c.op = "draw_texture_rec"
    /\ Primitive(c, TextureRecCalls(Gl, c.op, nprims + 1, c.texture, I(c.x), I(c.y),
                                    I(c.w), I(c.h), I(c.sx), I(c.sy), I(c.sw), I(c.sh),
                                    c.color), 0)

DrawLine(c) ==
    /\ c.op = "draw_line"
    /\ Primitive(c, LineCalls(Gl, c.op, nprims + 1, I(c.x1), I(c.y1), I(c.x2), I(c.y2),
                              I(c.thickness), c.color), 0)

DrawCircle(c) ==
    /\ c.op = "draw_circle"
    /\ Primitive(c, CircleCalls(Gl, c.op, nprims + 1, I(c.x), I(c.y), I(c.r), c.color),
                 CircleIterations)

\* ------------------------------------------------------------ the UI pass

\* A clipping_zone of megaui: Some(Rect {x, y, w, h}) in f32.
Rect(x, y, w, h) == [x |-> x, y |-> y, w |-> w, h |-> h]

NoRect == [none |-> TRUE]

\* The draw commands of the widgets: megaui::DrawList without its tags.  The widgets
\* of a frame queue them in turn, the clipped one first.
UiCommands ==
    << [ clipping_zone |-> Rect(<<3, 2>>, <<-5, 2>>, <<21, 2>>, I(8)),
         vertices |-> << Vertex(I(2), I(3), I(0), I(0), I(0), "RED"),
                         Vertex(I(9), I(3), I(0), <<1, 2>>, I(0), "RED"),
                         Vertex(I(9), I(7), I(0), <<1, 2>>, <<1, 2>>, "RED"),
                         Vertex(I(2), I(7), I(0), I(0), <<1, 2>>, "RED") >>,
         indices |-> QuadIndices ],
       [ clipping_zone |-> NoRect,
         vertices |-> << Vertex(I(0), I(0), I(0), I(0), I(0), "WHITE"),
                         Vertex(I(8), I(0), I(0), I(1), I(0), "WHITE"),
                         Vertex(I(8), I(8), I(0), I(1), I(1), "WHITE") >>,
         indices |-> <<0, 1, 2>> ] >>

\* The k-th command queued in frame f (the tags tell the commands apart).
Tagged(f, k) ==
    LET command == UiCommands[((k - 1) % Len(UiCommands)) + 1]
    IN  [ clipping_zone |-> command.clipping_zone, vertices |-> command.vertices,
          indices |-> command.indices, frame |-> f, k |-> k ]

\* A widget drawn through the public field ui queues a draw command.
UiWidget ==
    /\ pc = "idle"
    /\ frame < MaxFrames
    /\ Len(ui_commands) < MaxCmds
    /\ ui_commands' = Append(ui_commands, Tagged(frame, Len(ui_commands) + 1))
    /\ UNCHANGED << projVars, glVars, ui_draw_list, local_draw_list, passVars, trace,
                    nprims, call, ret, loop_count >>

\* The list is not cleared.
NotCleared(list) == list

\* self.ui_draw_list.clear()
Cleared(list) == <<>>

\* ui.render(&mut list): the commands of the frame are added to the list.
Rendered(list, commands) == list \o commands

\* The swap is left out.
NotSwapped(a, b) == <<a, b>>

\* std::mem::swap(&mut a, &mut b): the new <<a, b>>.
Swapped(a, b) == <<b, a>>

\* clipping_zone.map(|rect| (rect.x as i32, rect.y as i32, rect.w as i32, rect.h as i32))
Clip(zone) ==
    IF zone = NoRect THEN <<>>
    ELSE <<AsI32(zone.x), AsI32(zone.y), AsI32(zone.w), AsI32(zone.h)>>

\* ui.new_frame() is called before ui.render(..).
UiCallsNewFrameFirst(tr, commands) ==
    tr \o << Entry("ui.new_frame", "draw_ui", 0, <<>>),
             Entry("ui.render", "draw_ui", 0, commands) >>

\* self.ui.render(..) and then self.ui.new_frame(), as calls on ui.
UiCalls(tr, commands) ==
    tr \o << Entry("ui.render", "draw_ui", 0, commands),
             Entry("ui.new_frame", "draw_ui", 0, <<>>) >>

\* perform_render_passes calls draw_ui, which runs up to its loop: the list is cleared,
\* rendered into and swapped out for an empty vector, ui starts its next frame and the
\* font texture is bound.
DrawUiBegin ==
    /\ pc = "idle"
    /\ frame < MaxFrames
    /\ LET rendered == Rendered(Cleared(ui_draw_list), ui_commands)
           swapped == Swapped(<<>>, rendered)
           gl == GlTexture([Gl EXCEPT !.trace = UiCalls(@, ui_commands)],
                           "draw_ui", 0, FontTexture)
       IN  /\ local_draw_list' = swapped[1]
           /\ ui_draw_list' = swapped[2]
           /\ gl_texture' = gl.texture
           /\ trace' = gl.trace
    /\ ui_commands' = <<>>
    /\ cursor' = 1
    /\ pc' = "loop"
    /\ ret' = "none"
    /\ call' = NoCall
    /\ loop_count' = 0
    /\ UNCHANGED <<projVars, gl_scissor, frame, nprims>>

\* One iteration of the loop: gl.scissor and gl.geometry for the command under the cursor.
ForwardCommand ==
    /\ pc = "loop"
    /\ cursor <= Len(local_draw_list)
    /\ LET draw_command == local_draw_list[cursor]
           clipped == GlScissor(Gl, "draw_ui", 0, Clip(draw_command.clipping_zone))
           gl == GlGeometry(clipped, "draw_ui", 0, draw_command)
       IN  /\ gl_scissor' = gl.scissor
           /\ trace' = gl.trace
    /\ cursor' = cursor + 1
    /\ UNCHANGED << projVars, gl_texture, uiVars, pc, frame, nprims, call, ret,
                    loop_count >>

\* The loop is over: the texture is unbound, the list swapped back, and draw_ui returns
\* (its locals, the vector swapped out of the field and the loop position, are dropped).
DrawUiEnd ==
    /\ pc = "loop"
    /\ cursor > Len(local_draw_list)
    /\ LET gl == GlTexture(Gl, "draw_ui", 0, NoTexture)
       IN  /\ gl_texture' = gl.texture
           /\ trace' = gl.trace
    /\ ui_draw_list' = Swapped(local_draw_list, ui_draw_list)[2]
    /\ local_draw_list' = <<>>
    /\ cursor' = 0
    /\ pc' = "draw"
    /\ ret' = "draw_ui"
    /\ UNCHANGED <<projVars, gl_scissor, ui_commands, frame, nprims, call, loop_count>>

\* self.gl.draw(ctx), and perform_render_passes returns.
GlDraw ==
    /\ pc = "draw"
    /\ trace' = Append(trace, Entry("gl.draw", "perform_render_passes", 0, <<>>))
    /\ frame' = frame + 1
    /\ nprims' = 0
    /\ pc' = "idle"
    /\ ret' = "perform_render_passes"
    /\ UNCHANGED <<projVars, glVars, uiVars, cursor, call, loop_count>>

\* ---------------------------------------------------------- the frame loop

Call(op, fields) == [op |-> op] @@ fields

\* The primitive calls of a frame: one of each kind, and a line without length.
FrameCalls ==
    { Call("draw_rectangle", [x |-> 0, y |-> 0, w |-> 2, h |-> 1, color |-> "WHITE"]),
      Call("draw_rectangle_lines", [x |-> 1, y |-> 0, w |-> 3, h |-> 3, color |-> "RED"]),
      Call("draw_texture", [texture |-> Atlas, x |-> 1, y |-> 1, color |-> "WHITE"]),
      Call("draw_texture_rec",
           [texture |-> Atlas, x |-> 0, y |-> 1, w |-> 2, h |-> 2,
            sx |-> 1, sy |-> 0, sw |-> 1, sh |-> 1, color |-> "WHITE"]),
      Call("draw_line",
           [x1 |-> 0, y1 |-> 0, x2 |-> 1, y2 |-> 1, thickness |-> 2, color |-> "RED"]),
      Call("draw_line",
           [x1 |-> 1, y1 |-> 0, x2 |-> 1, y2 |-> 0, thickness |-> 2, color |-> "RED"]),
      Call("draw_circle", [x |-> 1, y |-> 1, r |-> 2, color |-> "WHITE"]) }

\* The application makes the primitive draw call c between two render passes.
FrameCall(c) ==
    /\ frame < MaxFrames
    /\ nprims < MaxPrims
    /\ call' = c

FrameDrawRectangle == \E c \in FrameCalls : FrameCall(c) /\ DrawRectangle(c)

FrameDrawTexture == \E c \in FrameCalls : FrameCall(c) /\ DrawTexture(c)

FrameDrawRectangleLines == \E c \in FrameCalls : FrameCall(c) /\ DrawRectangleLines(c)

FrameDrawTextureRec == \E c \in FrameCalls : FrameCall(c) /\ DrawTextureRec(c)

FrameDrawLine == \E c \in FrameCalls : FrameCall(c) /\ DrawLine(c)

FrameDrawCircle == \E c \in FrameCalls : FrameCall(c) /\ DrawCircle(c)

Init == New(<<4, 3>>) /\ call = NoCall

Next ==
    \/ FrameDrawRectangle
    \/ FrameDrawTexture
    \/ FrameDrawRectangleLines
    \/ FrameDrawTextureRec
    \/ FrameDrawLine
    \/ FrameDrawCircle
    \/ UiWidget
    \/ DrawUiBegin
    \/ ForwardCommand
    \/ DrawUiEnd
    \/ GlDraw

Spec == Init /\ [][Next]_vars

\* ------------------------------------------- one primitive, bounded inputs

Coords == 0 .. MaxCoord

Sizes == 0 .. MaxSize

SrcCoords == 0 .. MaxSrc

DestSizes == 0 .. MaxDest

\* A primitive draw call with arguments inside the bounds.
PrimCall(c) ==
    \/ \E x \in Coords, y \in Coords, w \in Sizes, h \in Sizes, color \in Colors :
           \/ c = Call("draw_rectangle",
                       [x |-> x, y |-> y, w |-> w, h |-> h, color |-> color])
           \/ c = Call("draw_rectangle_lines",
                       [x |-> x, y |-> y, w |-> w, h |-> h, color |-> color])
    \/ \E t \in Textures, x \in Coords, y \in Coords, color \in Colors :
           c = Call("draw_texture", [texture |-> t, x |-> x, y |-> y, color |-> color])
    \/ \E t \in Textures, x \in Coords, y \in Coords, w \in DestSizes, h \in DestSizes,
          sx \in SrcCoords, sy \in SrcCoords, sw \in SrcCoords, sh \in SrcCoords,
          color \in Colors :
           c = Call("draw_texture_rec",
                    [texture |-> t, x |-> x, y |-> y, w |-> w, h |-> h,
                     sx |-> sx, sy |-> sy, sw |-> sw, sh |-> sh, color |-> color])
    \/ \E x1 \in Coords, y1 \in Coords, x2 \in Coords, y2 \in Coords,
          thickness \in -1 .. MaxSize, color \in Colors :
           c = Call("draw_line",
                    [x1 |-> x1, y1 |-> y1, x2 |-> x2, y2 |-> y2,
                     thickness |-> thickness, color |-> color])
    \/ \E x \in Coords, y \in Coords, r \in Sizes, color \in Colors :
           c = Call("draw_circle", [x |-> x, y |-> y, r |-> r, color |-> color])

\* A context between two primitive calls of a frame: a texture may be left bound by
\* draw_texture, a clip and a draw list by an earlier render pass.
InitPrim ==
    /\ PrimCall(call)
    /\ screen = <<4, 3>>
    /\ screen_coordinates = PixelPerfect
    /\ gl_projection = Projection(PixelPerfect, screen)
    /\ \E dirty \in BOOLEAN :
           /\ gl_texture = IF dirty THEN Atlas ELSE NoTexture
           /\ gl_scissor = IF dirty THEN Clip(Tagged(0, 1).clipping_zone) ELSE <<>>
           /\ ui_draw_list = IF dirty THEN <<Tagged(0, 1)>> ELSE <<>>
           /\ frame = IF dirty THEN 1 ELSE 0
    /\ ui_commands = <<>>
    /\ local_draw_list = <<>>
    /\ pc = "idle"
    /\ cursor = 0
    /\ trace = <<>>
    /\ nprims = 0
    /\ ret = "none"
    /\ loop_count = 0

\* The call drawn by InitPrim is still to be made.
PrimPending == ret = "none" /\ UNCHANGED call

PrimDrawRectangle == PrimPending /\ DrawRectangle(call)

PrimDrawTexture == PrimPending /\ DrawTexture(call)

PrimDrawRectangleLines == PrimPending /\ DrawRectangleLines(call)

PrimDrawTextureRec == PrimPending /\ DrawTextureRec(call)

PrimDrawLine == PrimPending /\ DrawLine(call)

PrimDrawCircle == PrimPending /\ DrawCircle(call)

NextPrim ==
    \/ PrimDrawRectangle
    \/ PrimDrawTexture
    \/ PrimDrawRectangleLines
    \/ PrimDrawTextureRec
    \/ PrimDrawLine
    \/ PrimDrawCircle

SpecPrim == InitPrim /\ [][NextPrim]_vars

\* --------------------------------------------------- the projection alone

Screens == (0 .. MaxScreen) \X (1 .. MaxScreen)

FixedCoordinates ==
    { Fixed(l, r, b, 0) : l \in {-1, 0}, r \in 0 .. MaxExtent, b \in 0 .. MaxExtent }

\* The window is resized: ctx.screen_size() changes.
Resize ==
    /\ pc = "idle"
    /\ \E size \in Screens \ {screen} : screen' = size
    /\ ret' = "resize"
    /\ UNCHANGED << screen_coordinates, gl_projection, glVars, uiVars, passVars, trace,
                    nprims, call, loop_count >>

\* The crate assigns the field screen_coordinates.
SetScreenCoordinates ==
    /\ pc = "idle"
    /\ \E coordinates \in (FixedCoordinates \cup {PixelPerfect}) \ {screen_coordinates} :
           screen_coordinates' = coordinates
    /\ ret' = "set_screen_coordinates"
    /\ UNCHANGED << screen, gl_projection, glVars, uiVars, passVars, trace, nprims, call,
                    loop_count >>

InitProj == call = NoCall /\ \E size \in Screens : New(size)

NextProj ==
    \/ Resize
    \/ SetScreenCoordinates
    \/ UpdateProjectionMatrix

SpecProj == InitProj /\ [][NextProj]_vars

\* ------------------------------------------------------------------ claims

IsGeometry(e) == e.call = "gl.geometry"

IsUiGeometry(e) == IsGeometry(e) /\ e.by = "draw_ui"

IsPrimitiveGeometry(e) == IsGeometry(e) /\ e.by # "draw_ui"

\* The positions of the calls named `name` in the trace.
Calls(name) == {k \in 1 .. Len(trace) : trace[k].call = name}

Max(S) == CHOOSE m \in S : \A k \in S : k <= m

\* C2: after DrawContext::new and after every update_projection_matrix the projection
\* given to gl is orthographic(0, screen width, screen height, 0, -1, 1) in PixelPerfect
\* mode and orthographic(left, right, bottom, top, -1, 1) of the stored values, whatever
\* the screen size, in Fixed mode; a new context is in PixelPerfect mode.
C2_ProjectionFollowsCoordinates ==
    /\ ret = "new" => screen_coordinates = PixelPerfect
    /\ ret \in {"new", "update_projection_matrix"} =>
           /\ screen_coordinates.kind = "PixelPerfect" =>
                  gl_projection =
                      OrthographicRhGl(I(0), I(screen[1]), I(screen[2]), I(0), I(-1), I(1))
           /\ screen_coordinates.kind = "Fixed" =>
                  /\ gl_projection =
                         OrthographicRhGl(I(screen_coordinates.left),
                                          I(screen_coordinates.right),
                                          I(screen_coordinates.bottom),
                                          I(screen_coordinates.top), I(-1), I(1))
                  /\ \A size \in Screens :
                         gl_projection = Projection(screen_coordinates, size)

\* C2 witness: the projection was updated in Fixed mode on a screen whose pixel-perfect
\* projection differs from it.
C2_Witness ==
    /\ ret = "update_projection_matrix"
    /\ screen_coordinates.kind = "Fixed"
    /\ screen_coordinates.left = -1
    /\ gl_projection # Projection(PixelPerfect, screen)

\* The commands ui.render produced in the pass of the trace.
PassRendered == trace[Max(Calls("ui.render"))].arg

UiGeometry == SelectSeq(trace, IsUiGeometry)

\* C1: when perform_render_passes has returned, the UI geometry of the pass is the
\* commands ui.render produced, each once and in draw-list order, all of it after the
\* geometry of the frame's primitive calls, and the one gl.draw of the pass comes last.
C1_UiOverlaySubmittedOnce ==
    ret = "perform_render_passes" =>
        /\ Cardinality(Calls("ui.render")) = 1
        /\ Len(UiGeometry) = Len(PassRendered)
        /\ \A k \in 1 .. Len(UiGeometry) :
               /\ UiGeometry[k].arg.vertices = PassRendered[k].vertices
               /\ UiGeometry[k].arg.indices = PassRendered[k].indices
        /\ \A j, k \in 1 .. Len(trace) :
               IsPrimitiveGeometry(trace[j]) /\ IsUiGeometry(trace[k]) => j < k
        /\ Calls("gl.draw") = {Len(trace)}

\* C1 witness: a pass has returned that forwarded two UI commands after the geometry of
\* two primitive calls.
C1_Witness ==
    /\ ret = "perform_render_passes"
    /\ Len(PassRendered) >= 2
    /\ \E j, k \in 1 .. Len(trace) :
           /\ IsPrimitiveGeometry(trace[j])
           /\ IsPrimitiveGeometry(trace[k])
           /\ trace[j].n # trace[k].n

\* C5: while draw_ui forwards the commands the field ui_draw_list is empty and every
\* command being forwarded was queued in the current frame; when draw_ui has returned
\* the field holds the commands ui.render produced in this pass, in the same order.
C5_SwapKeepsDrawList ==
    /\ pc = "loop" =>
           /\ ui_draw_list = <<>>
           /\ \A k \in 1 .. Len(local_draw_list) : local_draw_list[k].frame = frame
           /\ local_draw_list = PassRendered
    /\ pc = "draw" \/ ret = "perform_render_passes" => ui_draw_list = PassRendered

\* C5 witness: draw_ui has returned in the second frame with two commands in the list.
C5_Witness ==
    /\ pc = "draw"
    /\ ret = "draw_ui"
    /\ frame = 1
    /\ Len(ui_draw_list) = 2
    /\ ui_draw_list[1] # ui_draw_list[2]

\* What draw_ui does for the commands from the k-th on: gl.scissor, then gl.geometry.
RECURSIVE Forwarded(_, _)
Forwarded(commands, k) ==
    IF k > Len(commands) THEN <<>>
    ELSE LET clip == Clip(commands[k].clipping_zone)
         IN  << Entry("gl.scissor", "draw_ui", 0, clip),
                Entry("gl.geometry", "draw_ui", 0,
                      [ vertices |-> commands[k].vertices, indices |-> commands[k].indices,
                        texture |-> FontTexture, scissor |-> clip ]) >>
             \o Forwarded(commands, k + 1)

\* The calls of a whole perform_render_passes that renders `commands`.
PassCalls(commands) ==
    << Entry("ui.render", "draw_ui", 0, commands),
       Entry("ui.new_frame", "draw_ui", 0, <<>>),
       Entry("gl.texture", "draw_ui", 0, FontTexture) >>
    \o Forwarded(commands, 1)
    \o << Entry("gl.texture", "draw_ui", 0, NoTexture),
          Entry("gl.draw", "perform_render_passes", 0, <<>>) >>

IsPrefix(s, t) == Len(s) <= Len(t) /\ s = SubSeq(t, 1, Len(s))

\* The calls the render pass has made so far.
PassTrace ==
    LET inside == {k \in 1 .. Len(trace) :
                       trace[k].by \in {"draw_ui", "perform_render_passes"}}
    IN  IF inside = {} THEN <<>>
        ELSE SubSeq(trace, CHOOSE k \in inside : \A j \in inside : k <= j, Len(trace))

\* C6: the calls of a render pass are, in this order and once each: ui.render,
\* ui.new_frame, gl.texture(font texture), for each command gl.scissor and then
\* gl.geometry for it, gl.texture(None), gl.draw; the pass is never out of that order
\* on the way, and no primitive call comes in between.
C6_PassOrder ==
    /\ PassTrace # <<>> => IsPrefix(PassTrace, PassCalls(PassTrace[1].arg))
    /\ PassTrace # <<>> => PassTrace[1].call = "ui.render"
    /\ pc = "loop" => Len(PassTrace) = 3 + 2 * (cursor - 1)
    /\ pc = "draw" => Len(PassTrace) = 4 + 2 * Len(ui_draw_list)
    /\ ret = "perform_render_passes" => PassTrace = PassCalls(ui_draw_list)

\* C6 witness: a pass with two commands has returned.
C6_Witness ==
    /\ ret = "perform_render_passes"
    /\ Len(ui_draw_list) = 2
    /\ Len(PassTrace) = 9

PrimitiveTextures ==
    [ draw_rectangle |-> {NoTexture}, draw_rectangle_lines |-> {NoTexture},
      draw_line |-> {NoTexture}, draw_circle |-> {NoTexture},
      draw_texture |-> Textures, draw_texture_rec |-> Textures,
      draw_ui |-> {FontTexture} ]

\* C7: every gl.geometry is made with the texture that the operation making it bound
\* last (None for draw_rectangle, draw_rectangle_lines, draw_line and draw_circle, the
\* argument for draw_texture and draw_texture_rec, the font texture for the UI), and
\* no texture is bound when draw_ui or perform_render_passes has returned.
C7_NoLeftoverTexture ==
    /\ \A k \in 1 .. Len(trace) :
           IsGeometry(trace[k]) =>
               LET e == trace[k]
                   binds == {j \in 1 .. k - 1 : trace[j].call = "gl.texture"}
               IN  /\ binds # {}
                   /\ trace[Max(binds)].by = e.by
                   /\ trace[Max(binds)].n = e.n
                   /\ trace[Max(binds)].arg = e.arg.texture
                   /\ e.arg.texture \in PrimitiveTextures[e.by]
                   /\ (call.op = e.by /\ e.n = nprims /\ e.by \in {"draw_texture", "draw_texture_rec"})
                          => e.arg.texture = call.texture
    /\ ret \in {"draw_ui", "perform_render_passes"} => gl_texture = NoTexture

\* C7 witness: a rectangle was drawn right after a texture, and the UI after both.
C7_Witness ==
    /\ ret = "perform_render_passes"
    /\ \E j, k, m \in 1 .. Len(trace) :
           /\ j < k /\ k < m
           /\ IsGeometry(trace[j]) /\ trace[j].by = "draw_texture" /\ trace[j].n = 1
           /\ IsGeometry(trace[k]) /\ trace[k].by = "draw_rectangle" /\ trace[k].n = 2
           /\ IsUiGeometry(trace[m])

\* The geometry submitted since the trace began.
Geometries == SelectSeq(trace, IsGeometry)

\* The corners of the rectangle (x, y, w, h), clockwise from (x, y), in integers.
Corners(x, y, w, h) == << <<x, y>>, <<x + w, y>>, <<x + w, y + h>>, <<x, y + h>> >>

\* The quad whose k-th vertex is at corners[k] and carries texels[k] over (tw, th).
TexturedQuad(corners, texels, tw, th, color) ==
    [ k \in 1 .. 4 |->
        Vertex(I(corners[k][1]), I(corners[k][2]), I(0),
               FDiv(I(texels[k][1]), I(tw)), FDiv(I(texels[k][2]), I(th)), color) ]

\* draw_texture_rec has bound its texture and submitted the quad of (x, y, w, h) with the
\* texels of (sx, sy, sw, sh) over the texture's size, indices [0, 1, 2, 0, 2, 3].
RecQuadSubmitted ==
    ret = "draw_texture_rec" =>
        /\ Len(trace) = 2
        /\ trace[1] = Entry("gl.texture", "draw_texture_rec", 1, call.texture)
        /\ IsGeometry(trace[2])
        /\ trace[2].arg.texture = call.texture
        /\ trace[2].arg.indices = <<0, 1, 2, 0, 2, 3>>
        /\ trace[2].arg.vertices =
               TexturedQuad(Corners(call.x, call.y, call.w, call.h),
                            Corners(call.sx, call.sy, call.sw, call.sh),
                            call.texture.width, call.texture.height, call.color)

\* The call was draw_texture_rec for the whole texture at its own size.
WholeTexture ==
    /\ call.w = call.texture.width
    /\ call.h = call.texture.height
    /\ call.sx = 0
    /\ call.sy = 0
    /\ call.sw = call.texture.width
    /\ call.sh = call.texture.height

\* draw_texture and draw_texture_rec for the whole texture submit the same quad.
SameQuadAsDrawTexture ==
    /\ ret = "draw_texture_rec" /\ WholeTexture =>
           /\ trace[2].arg.vertices =
                  TextureGeometry(call.texture, I(call.x), I(call.y), call.color).vertices
           /\ trace[2].arg.indices =
                  TextureGeometry(call.texture, I(call.x), I(call.y), call.color).indices
    /\ ret = "draw_texture" =>
           LET whole == TextureRecGeometry(call.texture, I(call.x), I(call.y),
                                           Width(call.texture), Height(call.texture),
                                           I(0), I(0),
                                           Width(call.texture), Height(call.texture),
                                           call.color)
           IN  /\ trace[2].arg.vertices = whole.vertices
               /\ trace[2].arg.indices = whole.indices

\* C3 as claimed: draw_texture_rec submits the quad of (x, y, w, h) with the texels of
\* (sx, sy, sw, sh) divided by the texture's size, and draw_texture submits the same quad
\* as draw_texture_rec for the whole texture, for every texture.
C3_AsClaimed == RecQuadSubmitted /\ SameQuadAsDrawTexture

\* C3 as amended: the same, the two quads being equal for textures that have texels
\* (a width and a height above zero).
C3_TextureRecQuad ==
    /\ RecQuadSubmitted
    /\ ( /\ call.op \in {"draw_texture", "draw_texture_rec"}
         /\ call.texture.width > 0
         /\ call.texture.height > 0 ) => SameQuadAsDrawTexture

\* C3 witness: draw_texture_rec was called for the whole 2 x 1 atlas at its own size.
C3_Witness ==
    /\ ret = "draw_texture_rec"
    /\ call.texture = Atlas
    /\ WholeTexture
    /\ call.x = 1

\* C4: every geometry of a primitive has a number of indices that is a multiple of 3,
\* each below the number of its vertices; draw_circle runs its loop 21 times and submits
\* 22 vertices, the centre and then 21 rim points that start and end at (x + r, y), and
\* the 60 indices of the triangles (0, i + 1, i + 2), i = 0 .. 19.
C4_GeometryWellFormed ==
    /\ \A k \in 1 .. Len(Geometries) :
           LET g == Geometries[k].arg
           IN  /\ Len(g.indices) % 3 = 0
               /\ \A j \in 1 .. Len(g.indices) :
                      g.indices[j] >= 0 /\ g.indices[j] < Len(g.vertices)
    /\ ret = "draw_circle" =>
           /\ loop_count = 21
           /\ Len(Geometries) = 1
           /\ LET g == Geometries[1].arg
              IN  /\ Len(g.vertices) = 22
                  /\ Len(g.indices) = 60
                  /\ g.vertices[1].x = I(call.x) /\ g.vertices[1].y = I(call.y)
                  /\ g.vertices[2].x = I(call.x + call.r) /\ g.vertices[2].y = I(call.y)
                  /\ g.vertices[22] = g.vertices[2]
                  /\ \A i \in 0 .. 19 :
                         /\ g.indices[3 * i + 1] = 0
                         /\ g.indices[3 * i + 2] = i + 1
                         /\ g.indices[3 * i + 3] = i + 2

\* C4 witness: a circle of radius 2 was drawn.
C4_Witness ==
    /\ ret = "draw_circle"
    /\ call.r = 2
    /\ Len(Geometries) = 1

\* The rectangle (x, y, w, h) a submitted quad covers, in integers.
QuadRectangle(g) ==
    << g.vertices[1].x[1], g.vertices[1].y[1],
       g.vertices[3].x[1] - g.vertices[1].x[1], g.vertices[3].y[1] - g.vertices[1].y[1] >>

\* The unit cells of the rectangle r = (x, y, w, h).
Cells(r) == {<<i, j>> : i \in r[1] .. r[1] + r[3] - 1, j \in r[2] .. r[2] + r[4] - 1}

\* The cells of r that touch its edge.
Border(r) ==
    { c \in Cells(r) :
        \/ c[1] = r[1] \/ c[1] = r[1] + r[3] - 1
        \/ c[2] = r[2] \/ c[2] = r[2] + r[4] - 1 }

\* C8: draw_rectangle_lines(x, y, w, h) submits the four rectangles (x, y, w, 1),
\* (x + w - 1, y + 1, 1, h - 2), (x, y + h - 1, w, 1), (x, y + 1, 1, h - 2) in this order;
\* for w >= 2 and h >= 2 none has a negative side, no two overlap, and together they
\* cover the one-unit border of (x, y, w, h) and nothing else.
C8_RectangleLinesBorder ==
    ret = "draw_rectangle_lines" =>
        LET x == call.x
            y == call.y
            w == call.w
            h == call.h
            strips == << <<x, y, w, 1>>, <<x + w - 1, y + 1, 1, h - 2>>,
                         <<x, y + h - 1, w, 1>>, <<x, y + 1, 1, h - 2>> >>
            drawn == [k \in 1 .. Len(Geometries) |-> QuadRectangle(Geometries[k].arg)]
        IN  /\ Len(Geometries) = 4
            /\ drawn = strips
            /\ \A k \in 1 .. 4 :
                   LET v == Geometries[k].arg.vertices
                   IN  /\ Len(v) = 4
                       /\ \A j \in 1 .. 4 :
                              /\ v[j].x = I(Corners(drawn[k][1], drawn[k][2],
                                                    drawn[k][3], drawn[k][4])[j][1])
                              /\ v[j].y = I(Corners(drawn[k][1], drawn[k][2],
                                                    drawn[k][3], drawn[k][4])[j][2])
            /\ w >= 2 /\ h >= 2 =>
                   /\ \A k \in 1 .. 4 : drawn[k][3] >= 0 /\ drawn[k][4] >= 0
                   /\ \A j, k \in 1 .. 4 : j # k => Cells(drawn[j]) \cap Cells(drawn[k]) = {}
                   /\ UNION {Cells(drawn[k]) : k \in 1 .. 4} = Border(<<x, y, w, h>>)

\* C8 witness: the outline of a 3 x 3 rectangle, whose middle cell stays free.
C8_Witness ==
    /\ ret = "draw_rectangle_lines"
    /\ call.w = 3
    /\ call.h = 3
    /\ Len(Geometries) = 4

\* The step is a call of draw_line.
LineCalled == ret' = "draw_line" /\ nprims' = nprims + 1

\* The calls the step added to the trace.
Added == SubSeq(trace', Len(Cur) + 1, Len(trace'))

\* The quad q has two vertices on either side of each end of the segment of c, at the
\* same offset along the segment's normal (-dy, dx).
AroundSegment(q, c) ==
    LET dx == I(c.x2 - c.x1)
        dy == I(c.y2 - c.y1)
        ox == FSub(q[1].x, I(c.x1))
        oy == FSub(q[1].y, I(c.y1))
    IN  /\ Len(q) = 4
        /\ q[2].x = FSub(I(c.x1), ox) /\ q[2].y = FSub(I(c.y1), oy)
        /\ q[3].x = FAdd(I(c.x2), ox) /\ q[3].y = FAdd(I(c.y2), oy)
        /\ q[4].x = FSub(I(c.x2), ox) /\ q[4].y = FSub(I(c.y2), oy)
        /\ FAdd(FMul(ox, dx), FMul(oy, dy)) = I(0)

\* C9 as claimed: draw_line with identical endpoints and a thickness other than zero
\* calls nothing on gl and leaves the texture, the clip and the UI draw list as they
\* were; every other call that passes the length check binds no texture and submits one
\* quad of 4 vertices, two on either side of each endpoint along the normal, with
\* indices [0, 1, 2, 2, 1, 3].
C9_DegenerateLineAsClaimed ==
    [][ LineCalled =>
            LET c == call'
            IN  IF c.x1 = c.x2 /\ c.y1 = c.y2 /\ c.thickness # 0
                THEN /\ trace' = Cur
                     /\ UNCHANGED <<gl_texture, gl_scissor, ui_draw_list>>
                ELSE ~LineSkipped(I(c.x1), I(c.y1), I(c.x2), I(c.y2), I(c.thickness)) =>
                         /\ gl_texture' = NoTexture
                         /\ Len(Added) = 2
                         /\ Added[1].call = "gl.texture" /\ Added[1].arg = NoTexture
                         /\ IsGeometry(Added[2])
                         /\ Added[2].arg.texture = NoTexture
                         /\ Added[2].arg.indices = <<0, 1, 2, 2, 1, 3>>
                         /\ AroundSegment(Added[2].arg.vertices, c) ]_vars

====
